---- MODULE Spec2Model ----
(***************************************************************************)
(* Model of the el-galeri REST API: the order routes (routes/orders.js)    *)
(* and the product and user routes, over a document store with four        *)
(* collections.  Every storage call is one atomic step that applies the    *)
(* store's effect and runs the awaiting handler up to its next await.      *)
(***************************************************************************)
EXTENDS Integers, Sequences, FiniteSets, TLC

VARIABLES products, users, orderItems, orders, nextId, reqs, removing, last

vars == <<products, users, orderItems, orders, nextId, reqs, removing, last>>

(* ------------------------------ bounds --------------------------------- *)
MaxItems == 2        \* longest orderItems array of a POST /orders body
MaxUsers == 2        \* ids the Users collection may hand out
MaxFiles == 2        \* most files attached to one upload
MaxQuantity == 2     \* largest quantity of an order item

\* SpecOrders follows one POST /orders request from arrival to answer
Slots == {1}
\* the product ids requests name: the catalogue holds product 1, and product 2
\* from the start or once a POST /products has created it
ProductIds == {1, 2}
UserIds == 1..MaxUsers
OrderIds == 1..Cardinality(Slots)
Quantities == 1..MaxQuantity
Prices == {1, 5}
FileNames == {"f1", "f2"}
Hosts == {"http://h"}
Plaintexts == {"pw", "x"}
Salts == {"s1", "s2"}
Names == {"a"}

(* --------------------------- JavaScript values -------------------------- *)
Null == [tag |-> "null"]
Undefined == [tag |-> "undefined"]
\* the response object, which res.status(..).json(..) returns
ResObj == [tag |-> "res"]
Doc(id, d) == [tag |-> "doc", id |-> id, doc |-> d]
Array(s) == [tag |-> "array", elems |-> s]

\* !v
Falsy(v) == v.tag \in {"null", "undefined"}

Envelope(ok, msg) == [tag |-> "envelope", success |-> ok, message |-> msg]
\* one call of res.send / res.json: the status in force and the body
Send(status, body) == [status |-> status, body |-> body]

(* ------------------------------ the store ------------------------------- *)
FindById(coll, id) == IF id \in DOMAIN coll THEN Doc(id, coll[id]) ELSE Null
Insert(coll, id, d) == [k \in DOMAIN coll \cup {id} |-> IF k = id THEN d ELSE coll[k]]
Remove(coll, id) == [k \in DOMAIN coll \ {id} |-> coll[k]]

\* await Model.findBy..(id).catch((err) => { return res.status(..).json(..) }):
\* the document, null, or the response object the catch callback returns
AwaitCatch(coll, id, ok) == IF ok THEN FindById(coll, id) ELSE ResObj

\* the status a res.send(..) goes out with: the last one set, 200 at first
StatusNow(sends) == IF sends = <<>> THEN 200 ELSE sends[Len(sends)].status

RECURSIVE SumSeq(_)
SumSeq(s) == IF s = <<>> THEN 0 ELSE Head(s) + SumSeq(Tail(s))

(* ------------------------------- state ---------------------------------- *)
\* a POST /orders request that has not arrived yet
IdleReq ==
  [pc |-> "idle", body |-> [orderItems |-> Undefined, user |-> 0], ids |-> <<>>,
   saving |-> {}, saved |-> {}, pricing |-> {}, totalPrices |-> <<>>,
   order |-> Null, sends |-> <<>>]

NoRequest == [route |-> "none", sends |-> <<>>]

\* `${req.protocol}://${req.get("host")}/public/uploads/` followed by the file name
Url(host, filename) == <<host, "/public/uploads/", filename>>

\* new Product({name, .., image, price, ..}); images defaults to []
NewProduct(name, image, price) ==
  [name |-> name, image |-> image, images |-> <<>>, price |-> price]

InitProduct(price) == NewProduct("a", Url("http://h", "f1"), price)

\* the catalogues the store may hold when the server starts: product 1, or
\* products 1 and 2, at different prices
InitCatalogs == {[k \in 1..n |-> InitProduct(4 - k)] : n \in 1..2}

Init ==
  /\ products \in InitCatalogs
  /\ users = <<>>
  /\ orderItems = <<>>
  /\ orders = <<>>
  /\ nextId = [product |-> Cardinality(DOMAIN products) + 1, user |-> 1,
               orderItem |-> 1, order |-> 1]
  /\ reqs = [s \in Slots |-> IdleReq]
  /\ removing = {}
  /\ last = NoRequest

(* ----------------------------- POST /orders ----------------------------- *)
OrderItemInputs == [quantity : Quantities, product : ProductIds]

RECURSIVE SeqsUpTo(_, _)
SeqsUpTo(S, n) ==
  IF n = 0 THEN {<<>>}
  ELSE LET shorter == SeqsUpTo(S, n - 1)
       IN  shorter \cup {Append(q, x) : q \in {t \in shorter : Len(t) = n - 1}, x \in S}

OrderBodies ==
  [orderItems : {Undefined} \cup {Array(q) : q \in SeqsUpTo(OrderItemInputs, MaxItems)},
   user : {1}]

\* mutant: every OrderItem is stored with quantity 1
NewOrderItemUnit(orderItem) == [quantity |-> 1, product |-> orderItem.product]

\* new OrderItem({quantity, product})
NewOrderItem(orderItem) == [quantity |-> orderItem.quantity, product |-> orderItem.product]

\* mutant: the price and the quantity are added
ItemTotalAdded(orderItem, product) == product.price + orderItem.quantity

\* orderItem.product.price * orderItem.quantity
ItemTotal(orderItem, product) == product.price * orderItem.quantity

\* totalPrices.reduce((a, b) => a + b, 0)
ReduceTotal(totalPrices) == SumSeq(totalPrices)

\* new Order({orderItems, totalPrice, user})
NewOrder(orderItemsIds, totalPrice, user) ==
  [orderItems |-> orderItemsIds, totalPrice |-> totalPrice, user |-> user]

\* mutant: the catch block answers like the falsy-order branch
Catch400(r) ==
  [r EXCEPT !.pc = "done", !.pricing = {},
            !.sends = Append(@, Send(400, Envelope(FALSE, "Failed to create order!")))]

\* the catch block of POST /orders
Catch500(r) ==
  [r EXCEPT !.pc = "done", !.pricing = {},
            !.sends = Append(@, Send(500, Envelope(FALSE, "Internal Server Error!s")))]

\* mutant: the collected ids live in one list shared by all requests
BuildOrderShared(r, totalPrices) ==
  [r EXCEPT !.pc = "orderSave", !.pricing = {},
            !.order = Doc(nextId.order,
                          NewOrder([i \in 1..(nextId.orderItem - 1) |-> i],
                                   ReduceTotal(totalPrices), r.body.user))]

\* both Promise.all have resolved: reduce, construct the Order, issue order.save()
BuildOrder(r, totalPrices) ==
  [r EXCEPT !.pc = "orderSave", !.pricing = {},
            !.order = Doc(nextId.order,
                          NewOrder(r.ids, ReduceTotal(totalPrices), r.body.user))]

\* the handler up to the first Promise.all: every OrderItem is constructed
\* (its _id is generated then) and its save() is issued
PostOrderStart(s, body) ==
  /\ reqs[s].pc = "idle"
  /\ \A t \in DOMAIN reqs : t < s => reqs[t].pc # "idle"
  /\ LET r == [reqs[s] EXCEPT !.body = body] IN
     IF body.orderItems.tag # "array"
     THEN /\ reqs' = [reqs EXCEPT ![s] = Catch500(r)]
          /\ UNCHANGED nextId
     ELSE LET n == Len(body.orderItems.elems)
              ids == [i \in 1..n |-> nextId.orderItem + i - 1]
              r2 == [r EXCEPT !.ids = ids]
          IN  IF n = 0
              THEN /\ reqs' = [reqs EXCEPT ![s] = BuildOrder(r2, <<>>)]
                   /\ nextId' = [nextId EXCEPT !.order = @ + 1]
              ELSE /\ reqs' = [reqs EXCEPT ![s] = [r2 EXCEPT !.pc = "saving", !.saving = 1..n]]
                   /\ nextId' = [nextId EXCEPT !.orderItem = @ + n]
  /\ UNCHANGED <<products, users, orderItems, orders, removing, last>>

\* newOrderItem.save() of item i completes
SaveItemDone(s, i, ok) ==
  LET r == reqs[s]
      r2 == [r EXCEPT !.saving = @ \ {i}, !.saved = IF ok THEN @ \cup {i} ELSE @]
  IN
  /\ i \in r.saving
  /\ orderItems' = IF ok THEN Insert(orderItems, r.ids[i], NewOrderItem(r.body.orderItems.elems[i]))
                   ELSE orderItems
  /\ reqs' = [reqs EXCEPT ![s] =
       IF r.pc # "saving" THEN r2
       ELSE IF ~ok THEN Catch500(r2)
       ELSE IF r2.saving = {} THEN [r2 EXCEPT !.pc = "pricing", !.pricing = DOMAIN r.ids]
       ELSE r2]
  /\ UNCHANGED <<products, users, orders, nextId, removing, last>>

\* OrderItem.findById(id).populate("product", "price") of item i completes
PriceItemDone(s, i, ok) ==
  LET r == reqs[s]
      orderItem == FindById(orderItems, r.ids[i])
      product == IF Falsy(orderItem) THEN Null ELSE FindById(products, orderItem.doc.product)
      \* reading .product of null or .price of null throws
      threw == ~ok \/ Falsy(orderItem) \/ Falsy(product)
      totals == [k \in DOMAIN r.totalPrices \cup {i} |->
                   IF k = i THEN ItemTotal(orderItem.doc, product.doc) ELSE r.totalPrices[k]]
      r2 == [r EXCEPT !.pricing = @ \ {i}, !.totalPrices = totals]
  IN
  /\ r.pc = "pricing"
  /\ i \in r.pricing
  /\ IF threw
     THEN /\ reqs' = [reqs EXCEPT ![s] = Catch500(r)]
          /\ UNCHANGED nextId
     ELSE IF r2.pricing = {}
     THEN /\ reqs' = [reqs EXCEPT ![s] = BuildOrder(r2, totals)]
          /\ nextId' = [nextId EXCEPT !.order = @ + 1]
     ELSE /\ reqs' = [reqs EXCEPT ![s] = r2]
          /\ UNCHANGED nextId
  /\ UNCHANGED <<products, users, orderItems, orders, removing, last>>

\* order.save() completes
SaveOrderDone(s, ok) ==
  LET r == reqs[s] IN
  /\ r.pc = "orderSave"
  /\ IF ok
     THEN /\ orders' = Insert(orders, r.order.id, r.order.doc)
          /\ reqs' = [reqs EXCEPT ![s] =
               IF Falsy(r.order)
               THEN [r EXCEPT !.pc = "done",
                       !.sends = Append(@, Send(400, Envelope(FALSE, "Failed to create order!")))]
               ELSE [r EXCEPT !.pc = "done", !.sends = Append(@, Send(200, r.order))]]
     ELSE /\ orders' = orders
          /\ reqs' = [reqs EXCEPT ![s] = Catch500(r)]
  /\ UNCHANGED <<products, users, orderItems, nextId, removing, last>>

(* -------------------------- DELETE /orders/:id -------------------------- *)

\* mutant: the order is looked up, not removed, before its items are removed
DeleteOrderKeeping(id, ok) ==
  LET deletedOrder == AwaitCatch(orders, id, ok) IN
  /\ orders' = orders
  /\ IF deletedOrder.tag # "doc"
     THEN /\ last' = [route |-> "DELETE /orders/:id", id |-> id, result |-> deletedOrder,
                      sends |-> <<Send(IF ok THEN 404 ELSE 500,
                                      Envelope(FALSE, "Order not found!"))>>]
          /\ UNCHANGED removing
     ELSE /\ removing' = removing \cup {deletedOrder.doc.orderItems[k] :
                                          k \in DOMAIN deletedOrder.doc.orderItems}
          /\ last' = [route |-> "DELETE /orders/:id", id |-> id, result |-> deletedOrder,
                      sends |-> <<Send(200, Envelope(TRUE, "Order successfully deleted!"))>>]
  /\ UNCHANGED <<products, users, orderItems, nextId, reqs>>

DeleteOrder(id, ok) ==
  LET deletedOrder == AwaitCatch(orders, id, ok)
      caught == IF ok THEN <<>>
                ELSE <<Send(500, Envelope(FALSE, "Internal Server Error!"))>>
  IN
  /\ orders' = IF ok THEN Remove(orders, id) ELSE orders
  /\ IF Falsy(deletedOrder)
     THEN /\ last' = [route |-> "DELETE /orders/:id", id |-> id, result |-> deletedOrder,
                      sends |-> Append(caught, Send(404, Envelope(FALSE, "Order not found!")))]
          /\ UNCHANGED removing
     ELSE IF deletedOrder.tag # "doc"
     \* deletedOrder.orderItems is undefined on the response object: .map throws
     THEN /\ last' = [route |-> "DELETE /orders/:id", id |-> id, result |-> deletedOrder,
                      sends |-> caught]
          /\ UNCHANGED removing
     \* every OrderItem.findByIdAndRemove is issued; awaiting the array of
     \* promises waits for none of them, and the 200 is sent
     ELSE /\ removing' = removing \cup {deletedOrder.doc.orderItems[k] :
                                          k \in DOMAIN deletedOrder.doc.orderItems}
          /\ last' = [route |-> "DELETE /orders/:id", id |-> id, result |-> deletedOrder,
                      sends |-> Append(caught,
                                  Send(200, Envelope(TRUE, "Order successfully deleted!")))]
  /\ UNCHANGED <<products, users, orderItems, nextId, reqs>>

\* one OrderItem.findByIdAndRemove issued by DELETE /orders/:id completes;
\* its outcome is not looked at
RemoveItemDone(id, ok) ==
  /\ id \in removing
  /\ removing' = removing \ {id}
  /\ orderItems' = IF ok THEN Remove(orderItems, id) ELSE orderItems
  /\ UNCHANGED <<products, users, orders, nextId, reqs, last>>

(* --------------------------- GET /orders/:id ---------------------------- *)
\* .populate({path: "orderItems", populate: {path: "product", select: "name price"}}):
\* every stored OrderItem of the list with its product narrowed to name and
\* price (null for a missing product); ids of missing OrderItems drop out
RECURSIVE PopulateItems(_)
PopulateItems(ids) ==
  IF ids = <<>> THEN <<>>
  ELSE LET item == FindById(orderItems, Head(ids))
           product == IF Falsy(item) THEN Null ELSE FindById(products, item.doc.product)
           rest == PopulateItems(Tail(ids))
       IN  IF Falsy(item) THEN rest
           ELSE <<[quantity |-> item.doc.quantity,
                   product |-> IF Falsy(product) THEN Null
                               ELSE [name |-> product.doc.name, price |-> product.doc.price]]>>
                  \o rest

\* .populate("user", "name")
PopulateUser(id) == IF id \in DOMAIN users THEN [name |-> users[id].name] ELSE Null

\* Order.findById(id).populate(..).populate(..).catch(..)
FindOrderPopulated(id, ok) ==
  LET order == AwaitCatch(orders, id, ok) IN
  IF order.tag # "doc" THEN order
  ELSE Doc(id, [order.doc EXCEPT !.orderItems = PopulateItems(@), !.user = PopulateUser(@)])

OrderNotFound404 == Send(404, Envelope(FALSE, "Order not found!"))

\* mutant: the not-found branch returns
GetOrderReturning(id, ok) ==
  LET order == FindOrderPopulated(id, ok)
      caught == IF ok THEN <<>>
                ELSE <<Send(500, Envelope(FALSE, "Internal server error!"))>>
  IN
  /\ last' = [route |-> "GET /orders/:id", id |-> id, ok |-> ok,
              sends |-> IF Falsy(order) THEN Append(caught, OrderNotFound404)
                        ELSE Append(caught, Send(StatusNow(caught), order))]
  /\ UNCHANGED <<products, users, orderItems, orders, nextId, reqs, removing>>

\* GET /orders/:id: the not-found branch sends and does not return, so
\* res.send(order) follows it
GetOrder(id, ok) ==
  LET order == FindOrderPopulated(id, ok)
      caught == IF ok THEN <<>>
                ELSE <<Send(500, Envelope(FALSE, "Internal server error!"))>>
      checked == IF Falsy(order) THEN Append(caught, OrderNotFound404) ELSE caught
  IN
  /\ last' = [route |-> "GET /orders/:id", id |-> id, ok |-> ok,
              sends |-> Append(checked, Send(StatusNow(checked), order))]
  /\ UNCHANGED <<products, users, orderItems, orders, nextId, reqs, removing>>

NextOrders ==
  \/ \E s \in Slots, body \in OrderBodies : PostOrderStart(s, body)
  \/ \E s \in Slots, i \in 1..MaxItems, ok \in BOOLEAN : SaveItemDone(s, i, ok)
  \/ \E s \in Slots, i \in 1..MaxItems, ok \in BOOLEAN : PriceItemDone(s, i, ok)
  \/ \E s \in Slots, ok \in BOOLEAN : SaveOrderDone(s, ok)
  \/ \E id \in OrderIds, ok \in BOOLEAN : DeleteOrder(id, ok)
  \/ \E id \in removing, ok \in BOOLEAN : RemoveItemDone(id, ok)
  \/ \E id \in OrderIds, ok \in BOOLEAN : GetOrder(id, ok)

SpecOrders == Init /\ [][NextOrders]_vars

(* ---------------------------- product routes ---------------------------- *)
\* req.file of uploadOptions.single("image")
UploadedFile(filename) == [tag |-> "file", filename |-> filename]
SingleUploads == {Undefined} \cup {UploadedFile(f) : f \in FileNames}

\* req.files of uploadOptions.array("images", 10): undefined when the request
\* is not multipart, otherwise the array of the files attached (empty for none)
ArrayUploads == {Undefined} \cup {Array(q) : q \in SeqsUpTo(FileNames, MaxFiles)}

ProductFields == [name : Names, price : Prices]

\* files.map((file) => imagesPaths.push(`${basePath}${file.filename}`))
ImagesPaths(host, files) == [k \in DOMAIN files |-> Url(host, files[k])]

\* mutant: the update overwrites the document, and the price falls back to 0
SetImagesOverwriting(product, imagesPaths) ==
  [product EXCEPT !.images = imagesPaths, !.price = 0]

\* mutant: the new paths are appended to the gallery
SetImagesAppended(product, imagesPaths) == [product EXCEPT !.images = @ \o imagesPaths]

\* findByIdAndUpdate(id, {images: imagesPaths}, {new: true}) on a stored product
SetImages(product, imagesPaths) == [product EXCEPT !.images = imagesPaths]

\* GET /products/:id
GetProduct(id, ok) ==
  LET product == AwaitCatch(products, id, ok)
      caught == IF ok THEN <<>> ELSE <<Send(400, Envelope(FALSE, "Internal Server Error"))>>
  IN
  /\ last' = [route |-> "GET /products/:id", id |-> id, ok |-> ok,
              sends |-> IF Falsy(product)
                        THEN Append(caught, Send(404, Envelope(FALSE,
                                       "Product with given ID is not found")))
                        ELSE Append(caught, Send(StatusNow(caught), product))]
  /\ UNCHANGED <<products, users, orderItems, orders, nextId, reqs, removing>>

\* mutant: a missing file is not rejected, its name reads as "undefined"
PostProductUnchecked(file, fields, host, ok) ==
  LET filename == IF Falsy(file) THEN "undefined" ELSE file.filename
      new == Doc(nextId.product, NewProduct(fields.name, Url(host, filename), fields.price))
  IN
  /\ nextId.product \in ProductIds
  /\ products' = IF ok THEN Insert(products, new.id, new.doc) ELSE products
  /\ nextId' = [nextId EXCEPT !.product = @ + 1]
  /\ last' = [route |-> "POST /products", file |-> file, ok |-> ok,
              sends |-> IF ok THEN <<Send(200, new)>>
                        ELSE <<Send(500, Envelope(FALSE, "Internal Server Error"))>>]
  /\ UNCHANGED <<users, orderItems, orders, reqs, removing>>

\* POST /products
PostProduct(file, fields, host, ok) ==
  IF Falsy(file)
  THEN /\ last' = [route |-> "POST /products", file |-> file,
                   sends |-> <<Send(400, Envelope(FALSE, "Image file is not presented"))>>]
       /\ UNCHANGED <<products, users, orderItems, orders, nextId, reqs, removing>>
  ELSE LET new == Doc(nextId.product,
                      NewProduct(fields.name, Url(host, file.filename), fields.price))
           product == IF ok THEN new ELSE ResObj
           caught == IF ok THEN <<>>
                     ELSE <<Send(500, Envelope(FALSE, "Internal Server Error"))>>
       IN
       /\ nextId.product \in ProductIds
       /\ products' = IF ok THEN Insert(products, new.id, new.doc) ELSE products
       /\ nextId' = [nextId EXCEPT !.product = @ + 1]
       /\ last' = [route |-> "POST /products", file |-> file, ok |-> ok,
                   sends |-> IF Falsy(product)
                             THEN Append(caught, Send(404, Envelope(FALSE,
                                            "Failed to create product")))
                             ELSE Append(caught, Send(StatusNow(caught), product))]
       /\ UNCHANGED <<users, orderItems, orders, reqs, removing>>

\* PUT /products/gallery-images/:id
PutGallery(id, files, host, ok) ==
  IF Falsy(files)
  THEN /\ last' = [route |-> "PUT /products/gallery-images/:id", id |-> id, files |-> files,
                   sends |-> <<Send(400, Envelope(FALSE, "Image file is not presented"))>>]
       /\ UNCHANGED <<products, users, orderItems, orders, nextId, reqs, removing>>
  ELSE LET imagesPaths == ImagesPaths(host, files.elems)
           updated == IF ok /\ id \in DOMAIN products
                      THEN Insert(products, id, SetImages(products[id], imagesPaths))
                      ELSE products
           product == AwaitCatch(updated, id, ok)
           caught == IF ok THEN <<>>
                     ELSE <<Send(400, Envelope(FALSE, "Internal Server Error"))>>
       IN
       /\ products' = updated
       /\ last' = [route |-> "PUT /products/gallery-images/:id", id |-> id, files |-> files,
                   host |-> host, ok |-> ok,
                   sends |-> IF Falsy(product)
                             THEN Append(caught, Send(404, Envelope(FALSE,
                                            "Product with given ID is not found!")))
                             ELSE Append(caught, Send(StatusNow(caught), product))]
       /\ UNCHANGED <<users, orderItems, orders, nextId, reqs, removing>>

NextProducts ==
  \/ \E id \in ProductIds, ok \in BOOLEAN : GetProduct(id, ok)
  \/ \E file \in SingleUploads, fields \in ProductFields, host \in Hosts, ok \in BOOLEAN :
       PostProduct(file, fields, host, ok)
  \/ \E id \in ProductIds, files \in ArrayUploads, host \in Hosts, ok \in BOOLEAN :
       PutGallery(id, files, host, ok)

SpecProducts == Init /\ [][NextProducts]_vars

(* ------------------------------ user routes ----------------------------- *)
BcryptCost == 11

String(v) == [tag |-> "string", value |-> v]

\* what bcrypt derives from the plaintext, the salt and the cost
Digest(plain, salt, cost) == <<"digest", plain, salt, cost>>

\* bycrypt.hash(password, 11): the hash carries its cost and its fresh salt
Hash(password, salt) ==
  [tag |-> "bcrypt", cost |-> BcryptCost, salt |-> salt,
   digest |-> Digest(password.value, salt, BcryptCost)]

\* bcrypt.compare(password, hash)
Compare(password, hash) ==
  /\ hash.tag = "bcrypt"
  /\ hash.digest = Digest(password.value, hash.salt, hash.cost)

UserBodies ==
  [name : Names, password : {Undefined} \cup {String(p) : p \in Plaintexts},
   isAdmin : BOOLEAN]

\* mutant: the submitted password is stored as it came
NewUserPlain(body, hashedPassword) ==
  [name |-> body.name, password |-> body.password, isAdmin |-> body.isAdmin]

\* new User({name, email, password: hashedPassword, isAdmin})
NewUser(body, hashedPassword) ==
  [name |-> body.name, password |-> hashedPassword, isAdmin |-> body.isAdmin]

UserCatch500 == <<Send(500, Envelope(FALSE, "Internal Server Error!"))>>

\* POST /users
PostUser(body, salt, ok) ==
  \* bycrypt.hash rejects a password that is not a string
  IF body.password.tag # "string"
  THEN /\ last' = [route |-> "POST /users", body |-> body, user |-> Null,
                   sends |-> UserCatch500]
       /\ UNCHANGED <<products, users, orderItems, orders, nextId, reqs, removing>>
  ELSE LET user == Doc(nextId.user, NewUser(body, Hash(body.password, salt))) IN
       /\ nextId.user <= MaxUsers
       /\ users' = IF ok THEN Insert(users, user.id, user.doc) ELSE users
       /\ nextId' = [nextId EXCEPT !.user = @ + 1]
       /\ last' = [route |-> "POST /users", body |-> body, user |-> user,
                   sends |-> IF ~ok THEN UserCatch500
                             ELSE IF Falsy(user)
                             THEN <<Send(400, Envelope(FALSE, "Failed to create user!"))>>
                             ELSE <<Send(200, user)>>]
       /\ UNCHANGED <<products, orderItems, orders, reqs, removing>>

\* PUT /users/:id
PutUser(id, body, salt, ok) ==
  IF body.password.tag # "string" \/ ~ok
  THEN /\ last' = [route |-> "PUT /users/:id", id |-> id, body |-> body,
                   sends |-> UserCatch500]
       /\ UNCHANGED <<products, users, orderItems, orders, nextId, reqs, removing>>
  ELSE LET updated == IF id \in DOMAIN users
                      THEN Insert(users, id, NewUser(body, Hash(body.password, salt)))
                      ELSE users
           user == FindById(updated, id)
       IN
       /\ users' = updated
       /\ last' = [route |-> "PUT /users/:id", id |-> id, body |-> body,
                   sends |-> IF Falsy(user)
                             THEN <<Send(404, Envelope(FALSE,
                                      "User with given ID is not found!"))>>
                             ELSE <<Send(200, user)>>]
       /\ UNCHANGED <<products, orderItems, orders, nextId, reqs, removing>>

\* DELETE /users/:id
DeleteUser(id, ok) ==
  LET deletedUser == AwaitCatch(users, id, ok)
      caught == IF ok THEN <<>> ELSE <<Send(400, Envelope(FALSE, "err"))>>
  IN
  /\ users' = IF ok THEN Remove(users, id) ELSE users
  /\ last' = [route |-> "DELETE /users/:id", id |-> id, ok |-> ok,
              sends |-> IF Falsy(deletedUser)
                        THEN Append(caught, Send(404, Envelope(FALSE, "User not found!")))
                        ELSE Append(caught, Send(200, Envelope(TRUE,
                                       "User successfully deleted!")))]
  /\ UNCHANGED <<products, orderItems, orders, nextId, reqs, removing>>

NextUsers ==
  \/ \E body \in UserBodies, salt \in Salts, ok \in BOOLEAN : PostUser(body, salt, ok)
  \/ \E id \in UserIds, body \in UserBodies, salt \in Salts, ok \in BOOLEAN :
       PutUser(id, body, salt, ok)
  \/ \E id \in UserIds, ok \in BOOLEAN : DeleteUser(id, ok)

SpecUsers == Init /\ [][NextUsers]_vars

(* -------------------- two concurrent POST /orders ----------------------- *)
\* two POST /orders requests in flight at once, both ordering product 1
ConcurrentSlots == {1, 2}

ConcurrentBodies ==
  [orderItems : {Array(q) : q \in SeqsUpTo([quantity : {1, 2}, product : {1}], MaxItems)
                                    \ {<<>>}},
   user : {1}]

InitConcurrent ==
  /\ products = [k \in {1} |-> InitProduct(3)]
  /\ users = <<>>
  /\ orderItems = <<>>
  /\ orders = <<>>
  /\ nextId = [product |-> 2, user |-> 1, orderItem |-> 1, order |-> 1]
  /\ reqs = [s \in ConcurrentSlots |-> IdleReq]
  /\ removing = {}
  /\ last = NoRequest

NextConcurrent ==
  \/ \E s \in ConcurrentSlots, body \in ConcurrentBodies : PostOrderStart(s, body)
  \/ \E s \in ConcurrentSlots, i \in 1..MaxItems, ok \in BOOLEAN : SaveItemDone(s, i, ok)
  \/ \E s \in ConcurrentSlots, i \in 1..MaxItems, ok \in BOOLEAN : PriceItemDone(s, i, ok)
  \/ \E s \in ConcurrentSlots, ok \in BOOLEAN : SaveOrderDone(s, ok)

SpecConcurrent == InitConcurrent /\ [][NextConcurrent]_vars

\* two POST /orders requests of up to MaxItems items of one unit each, with
\* DELETE /orders/:id requests arriving at any moment
InterleavedBodies ==
  [orderItems : {Array(q) : q \in SeqsUpTo([quantity : {1}, product : {1}], MaxItems)},
   user : {1}]

NextInterleaved ==
  \/ \E s \in ConcurrentSlots, body \in InterleavedBodies : PostOrderStart(s, body)
  \/ \E s \in ConcurrentSlots, i \in 1..MaxItems, ok \in BOOLEAN : SaveItemDone(s, i, ok)
  \/ \E s \in ConcurrentSlots, i \in 1..MaxItems, ok \in BOOLEAN : PriceItemDone(s, i, ok)
  \/ \E s \in ConcurrentSlots, ok \in BOOLEAN : SaveOrderDone(s, ok)
  \/ \E id \in ConcurrentSlots, ok \in BOOLEAN : DeleteOrder(id, ok)
  \/ \E id \in removing, ok \in BOOLEAN : RemoveItemDone(id, ok)

SpecInterleaved == InitConcurrent /\ [][NextInterleaved]_vars

(* ----------------------------- all the routes --------------------------- *)
Next == NextOrders \/ NextProducts \/ NextUsers

Spec == Init /\ [][Next]_vars

\* the routes that change stored documents, together on one store that holds
\* a user: one POST /orders of items of two units, uploads of one file, the
\* user replaced and deleted
RouteOrderBodies ==
  [orderItems : {Array(q) : q \in SeqsUpTo([quantity : {2}, product : ProductIds], MaxItems)},
   user : {1}]

RouteUserBodies == [name : {"a"}, password : {String("pw")}, isAdmin : {TRUE}]

InitRoutes ==
  /\ products \in InitCatalogs
  /\ users = [k \in {1} |-> NewUser([name |-> "a", isAdmin |-> FALSE],
                                    Hash(String("x"), "s1"))]
  /\ orderItems = <<>>
  /\ orders = <<>>
  /\ nextId = [product |-> Cardinality(DOMAIN products) + 1, user |-> 2,
               orderItem |-> 1, order |-> 1]
  /\ reqs = [s \in Slots |-> IdleReq]
  /\ removing = {}
  /\ last = NoRequest

NextRoutes ==
  \/ \E s \in Slots, body \in RouteOrderBodies : PostOrderStart(s, body)
  \/ \E s \in Slots, i \in 1..MaxItems, ok \in BOOLEAN : SaveItemDone(s, i, ok)
  \/ \E s \in Slots, i \in 1..MaxItems, ok \in BOOLEAN : PriceItemDone(s, i, ok)
  \/ \E s \in Slots, ok \in BOOLEAN : SaveOrderDone(s, ok)
  \/ \E id \in OrderIds, ok \in BOOLEAN : DeleteOrder(id, ok)
  \/ \E id \in removing, ok \in BOOLEAN : RemoveItemDone(id, ok)
  \/ \E fields \in ProductFields, host \in Hosts, ok \in BOOLEAN :
       PostProduct(UploadedFile("f1"), fields, host, ok)
  \/ \E id \in ProductIds, host \in Hosts, ok \in BOOLEAN :
       PutGallery(id, Array(<<"f1">>), host, ok)
  \/ \E body \in RouteUserBodies, ok \in BOOLEAN : PutUser(1, body, "s2", ok)
  \/ \E ok \in BOOLEAN : DeleteUser(1, ok)

SpecRoutes == InitRoutes /\ [][NextRoutes]_vars

(* ------------------------ properties of the order routes ---------------- *)
Range(f) == {f[k] : k \in DOMAIN f}

\* the request of slot s has been answered with the created order
Succeeded(r) == r.pc = "done" /\ r.sends = <<Send(200, r.order)>>
\* the request of slot s ended without a 200
Failed(r) == r.pc = "done" /\ \A k \in DOMAIN r.sends : r.sends[k].status # 200
\* this step answers the request of slot s
Answers(s) == reqs[s].pc # "done" /\ reqs'[s].pc = "done"

\* sum over the input items of price of the referenced product * quantity
RECURSIVE ExpectedTotal(_, _)
ExpectedTotal(items, catalog) ==
  IF items = <<>> THEN 0
  ELSE catalog[Head(items).product].price * Head(items).quantity
         + ExpectedTotal(Tail(items), catalog)

\* C1: when a POST /orders succeeds, the totalPrice stored on the created
\* Order is the sum over the request's items of the referenced product's
\* price at that time times the item's quantity (0 for no items).
C1_TotalPriceIsSum ==
  [][\A s \in DOMAIN reqs :
       (Answers(s) /\ Succeeded(reqs'[s])) =>
          /\ reqs'[s].order.id \in DOMAIN orders'
          /\ orders'[reqs'[s].order.id].totalPrice
               = ExpectedTotal(reqs'[s].body.orderItems.elems, products')]_vars

C1_Witness ==
  \E s \in DOMAIN reqs :
    /\ Succeeded(reqs[s])
    /\ Len(reqs[s].body.orderItems.elems) = 2
    /\ reqs[s].body.orderItems.elems[1].product # reqs[s].body.orderItems.elems[2].product
    /\ reqs[s].order.id \in DOMAIN orders

C1_WitnessEmpty ==
  \E s \in DOMAIN reqs :
    /\ Succeeded(reqs[s])
    /\ reqs[s].body.orderItems.elems = <<>>
    /\ reqs[s].order.doc.totalPrice = 0

\* C2: when a POST /orders with N items succeeds, each input item has been
\* persisted exactly once as an OrderItem with that item's quantity and
\* product under its own generated id, the N ids are distinct, and the
\* created Order lists exactly those ids in input order.
C2_ItemsPersistedInOrder ==
  [][\A s \in DOMAIN reqs :
       (Answers(s) /\ Succeeded(reqs'[s])) =>
          LET r == reqs'[s]
              items == r.body.orderItems.elems
          IN  /\ Len(r.ids) = Len(items)
              /\ r.saved = DOMAIN items
              /\ \A i, j \in DOMAIN r.ids : r.ids[i] = r.ids[j] => i = j
              /\ \A i \in DOMAIN items :
                   /\ r.ids[i] \in DOMAIN orderItems'
                   /\ orderItems'[r.ids[i]]
                        = [quantity |-> items[i].quantity, product |-> items[i].product]
              /\ orders'[r.order.id].orderItems = r.ids]_vars

C2_Witness ==
  \E s \in DOMAIN reqs :
    /\ Succeeded(reqs[s])
    /\ Len(reqs[s].body.orderItems.elems) = 2
    /\ reqs[s].body.orderItems.elems[1] # reqs[s].body.orderItems.elems[2]
    /\ orders[reqs[s].order.id].orderItems = reqs[s].ids

\* C3: once DELETE /orders/:id of an existing order has sent its 200, none
\* of the OrderItem ids the order listed is in the OrderItems collection.
C3_ItemsGoneAfter200 ==
  (/\ last.route = "DELETE /orders/:id"
   /\ last.result.tag = "doc"
   /\ \E k \in DOMAIN last.sends : last.sends[k].status = 200)
    => \A id \in Range(last.result.doc.orderItems) : id \notin DOMAIN orderItems

\* C4: when a POST /orders fails at any step, the one response is the 500
\* envelope, no Order of that request is in the Orders collection, and every
\* OrderItem the request has persisted is still in the OrderItems collection.
C4_FailureIs500NoCleanup ==
  \A s \in DOMAIN reqs :
    Failed(reqs[s]) =>
      LET r == reqs[s] IN
      /\ r.sends = <<Send(500, Envelope(FALSE, "Internal Server Error!s"))>>
      /\ r.order.tag = "doc" => r.order.id \notin DOMAIN orders
      /\ \A o \in DOMAIN orders : Range(orders[o].orderItems) \cap Range(r.ids) = {}
      /\ \A i \in r.saved :
           /\ r.ids[i] \in DOMAIN orderItems
           /\ orderItems[r.ids[i]] = NewOrderItem(r.body.orderItems.elems[i])

\* a request that failed when the price of a missing product was read, with
\* its OrderItem documents persisted
C4_Witness ==
  \E s \in DOMAIN reqs :
    /\ Failed(reqs[s])
    /\ reqs[s].saved # {}
    /\ reqs[s].saving = {}
    /\ \E i \in reqs[s].saved : reqs[s].body.orderItems.elems[i].product \notin DOMAIN products

(* ------------------ properties of the product and user routes ----------- *)
\* this step is the handler of route r answering a request
Handles(r) == last' # last /\ last'.route = r

NoImage400 == <<Send(400, Envelope(FALSE, "Image file is not presented"))>>

\* C5: a POST /products with no image file attached is answered with the one
\* 400 and leaves the Products collection as it was.
C5_NoImageRejected ==
  [][(Handles("POST /products") /\ Falsy(last'.file)) =>
       (last'.sends = NoImage400 /\ products' = products)]_vars

C5_Witness ==
  /\ last.route = "POST /products"
  /\ Falsy(last.file)
  /\ last.sends = NoImage400

\* C6: after a successful POST /users the stored password is a hash of the
\* submitted plaintext: it is not the plaintext, and comparing the plaintext
\* with it succeeds.
C6_PasswordHashed ==
  (last.route = "POST /users" /\ \E k \in DOMAIN last.sends : last.sends[k].status = 200) =>
     /\ last.user.id \in DOMAIN users
     /\ LET stored == users[last.user.id].password
            plain == last.body.password
        IN  /\ stored # plain
            /\ Compare(plain, stored)
            /\ \A other \in Plaintexts : other # plain.value => ~Compare(String(other), stored)

C6_Witness ==
  /\ last.route = "POST /users"
  /\ last.sends = <<Send(200, last.user)>>
  /\ last.user.id \in DOMAIN users
  /\ \E id \in DOMAIN users : users[id].password # users[last.user.id].password

GalleryStep ==
  /\ Handles("PUT /products/gallery-images/:id")
  /\ ~Falsy(last'.files)
  /\ Len(last'.files.elems) >= 1

\* the successful answer: the updated product, sent once with 200
GallerySucceeded ==
  /\ Len(last'.sends) = 1
  /\ last'.sends[1].status = 200

\* what a replacing update of the gallery leaves in the collection
GalleryReplaced ==
  /\ last'.id \in DOMAIN products
  /\ last'.sends[1].body = FindById(products', last'.id)
  /\ products' = [products EXCEPT ![last'.id].images =
                    [k \in DOMAIN last'.files.elems |->
                       Url(last'.host, last'.files.elems[k])]]

NotFound404 == <<Send(404, Envelope(FALSE, "Product with given ID is not found!"))>>

C8_NoFilesRejected ==
  [][(/\ Handles("PUT /products/gallery-images/:id")
      /\ (Falsy(last'.files) \/ last'.files.elems = <<>>)) =>
       /\ last'.sends = NoImage400
       /\ last'.id \in DOMAIN products =>
            products'[last'.id].images = products[last'.id].images]_vars

\* C9: GET /products/:id sends exactly one response: the product with 200
\* when it exists, 404 when it does not, 400 and nothing further when the
\* storage lookup fails.
C9_OneResponse ==
  last.route = "GET /products/:id" =>
    /\ Len(last.sends) = 1
    /\ IF ~last.ok THEN last.sends[1].status = 400
       ELSE IF last.id \in DOMAIN products
       THEN last.sends[1] = Send(200, FindById(products, last.id))
       ELSE last.sends[1].status = 404

\* C10: DELETE /users/:id answers 404 and leaves the Users collection as it
\* was when no user has the id; in every other case it answers with the one
\* 200 success envelope, and exactly that user has been removed.
C10_DeleteUser ==
  [][Handles("DELETE /users/:id") =>
       IF last'.id \notin DOMAIN users
       THEN /\ last'.sends = <<Send(404, Envelope(FALSE, "User not found!"))>>
            /\ users' = users
       ELSE /\ last'.sends = <<Send(200, Envelope(TRUE, "User successfully deleted!"))>>
            /\ users' = Remove(users, last'.id)]_vars

(* ------------------------- further order properties --------------------- *)
\* C12: on GET /orders/:id for an id with no stored order (the lookup
\* completes with null) the handler sends the 404 "Order not found!" body
\* and then performs a second send on the same request.
C12_NotFoundSendsTwice ==
  [][(Handles("GET /orders/:id") /\ last'.ok /\ last'.id \notin DOMAIN orders) =>
       /\ Len(last'.sends) = 2
       /\ last'.sends[1] = OrderNotFound404
       /\ last'.sends[2].body = Null]_vars

\* a GET /orders/:id whose lookup completed and found no order
C12_Witness ==
  /\ last.route = "GET /orders/:id"
  /\ last.ok
  /\ last.id \notin DOMAIN orders
  /\ last.sends[1] = OrderNotFound404

\* C11: under any interleaving of two concurrent POST /orders requests for
\* the same product neither request waits for the other (a request that is
\* not answered has a storage call in flight), the OrderItem ids of the two
\* requests are disjoint, and each created Order lists exactly its own
\* request's ids and carries its own request's sum of price * quantity.
C11_ConcurrentOrdersIndependent ==
  /\ \A s \in DOMAIN reqs :
       /\ reqs[s].pc = "saving" => reqs[s].saving # {}
       /\ reqs[s].pc = "pricing" => reqs[s].pricing # {}
  /\ \A s, t \in DOMAIN reqs :
       s # t => Range(reqs[s].ids) \cap Range(reqs[t].ids) = {}
  /\ \A s \in DOMAIN reqs :
       Succeeded(reqs[s]) =>
         LET r == reqs[s] IN
         /\ r.order.id \in DOMAIN orders
         /\ orders[r.order.id] = r.order.doc
         /\ r.order.doc.orderItems = r.ids
         /\ Len(r.ids) = Len(r.body.orderItems.elems)
         /\ r.order.doc.totalPrice = ExpectedTotal(r.body.orderItems.elems, products)
         /\ \A t \in DOMAIN reqs \ {s} :
              reqs[t].order.tag = "doc" => reqs[t].order.id # r.order.id

\* both requests answered with their orders, the later arrival's order built
\* first, for different totals
C11_Witness ==
  /\ \A s \in DOMAIN reqs : Succeeded(reqs[s])
  /\ DOMAIN reqs = ConcurrentSlots
  /\ reqs[2].order.id < reqs[1].order.id
  /\ reqs[1].order.doc.totalPrice # reqs[2].order.doc.totalPrice
  /\ Len(reqs[1].ids) = 2

\* C13: in every state reached by interleaving POST /orders and
\* DELETE /orders/:id requests, every OrderItem id a stored Order lists is
\* the id of a stored OrderItem.
C13_OrderItemsExist ==
  \A o \in DOMAIN orders : Range(orders[o].orderItems) \subseteq DOMAIN orderItems

\* one order's items are being removed while another order is stored
C13_Witness ==
  /\ removing # {}
  /\ \E o \in DOMAIN orders : orders[o].orderItems # <<>>

\* sum over the stored OrderItems of the list of the stored price of the
\* product each refers to, times its quantity
RECURSIVE StoredTotal(_)
StoredTotal(ids) ==
  IF ids = <<>> THEN 0
  ELSE products[orderItems[Head(ids)].product].price * orderItems[Head(ids)].quantity
         + StoredTotal(Tail(ids))

TotalsInStep ==
  \A o \in DOMAIN orders :
    /\ Range(orders[o].orderItems) \subseteq DOMAIN orderItems
    /\ \A id \in Range(orders[o].orderItems) : orderItems[id].product \in DOMAIN products
    /\ orders[o].totalPrice = StoredTotal(orders[o].orderItems)

\* no step changes a stored Order's totalPrice or orderItems, a stored
\* OrderItem's quantity or product, or a stored Product's price
NothingRecomputed ==
  /\ \A o \in DOMAIN orders \cap DOMAIN orders' :
       /\ orders'[o].totalPrice = orders[o].totalPrice
       /\ orders'[o].orderItems = orders[o].orderItems
  /\ \A id \in DOMAIN orderItems \cap DOMAIN orderItems' : orderItems'[id] = orderItems[id]
  /\ \A p \in DOMAIN products : p \in DOMAIN products' /\ products'[p].price = products[p].price

\* C14: in every state reached through the routes, every stored Order's
\* totalPrice equals the sum over its orderItems of the referenced product's
\* price times the quantity, and no step modifies a stored Order's
\* totalPrice or orderItems, a stored OrderItem, or a stored Product's price.
C14_TotalPriceStays == []TotalsInStep /\ [][NothingRecomputed]_vars

\* an order of two stored items whose product's gallery was replaced and
\* whose user was replaced
C14_Witness ==
  /\ \E o \in DOMAIN orders :
       /\ Len(orders[o].orderItems) = 2
       /\ orders[o].totalPrice > 0
       /\ \E id \in Range(orders[o].orderItems) :
            products[orderItems[id].product].images # <<>>
  /\ 1 \in DOMAIN users
  /\ users[1].password.salt = "s2"

====
